---- MODULE Spec2Model ----
(***************************************************************************)
(* Model of renderer/renderer.go of tomhjp/markdown-to-adf: the goldmark   *)
(* renderer that walks a markdown AST (enter/exit events of ast.Walk) and  *)
(* builds an ADF document tree through a block-context stack.              *)
(*                                                                         *)
(* Go pointers to Node are indices into the arena `heap`; the document    *)
(* root allocated by NewRenderer is index 1.  The markdown document is     *)
(* discovered lazily by the first conversion: `input` is the event stream  *)
(* the parser's tree gives to the walker, and a later conversion of the    *)
(* same source replays it.                                                 *)
(***************************************************************************)
EXTENDS Integers, Sequences, FiniteSets, TLC

(* ------------------------------ bounds --------------------------------- *)
\* AST nodes in one document (the document node itself not counted).
MaxNodes == 4
\* Conversions of the same source by the package-level Render.
MaxRuns == 2
\* AST nodes in a document that is converted MaxRuns times.
MaxReplayNodes == 3

\* Heading.Level of an ATX or setext heading.
HeadingLevels == 1..6

\* Values of n.Text(source) of an ast.Text node.
TextValues == {"", "a"}

(* --------------------------- the AST (input) --------------------------- *)
\* Kinds with a case in renderSingle's type switch.
HandledKinds ==
    {"Document", "TextBlock", "Paragraph", "Heading", "Text", "String",
     "CodeSpan", "Strikethrough", "Emphasis", "ThematicBreak", "Blockquote",
     "List", "ListItem", "Link", "Image", "CodeBlock", "FencedCodeBlock",
     "HTMLBlock", "RawHTML", "Table", "TableHeader", "TableRow", "TableCell"}

\* Kinds the GFM parser produces that the type switch has no case for.
UnknownKinds == {"AutoLink", "TaskCheckBox"}

BlockKinds ==
    {"Paragraph", "Heading", "ThematicBreak", "Blockquote", "List",
     "CodeBlock", "FencedCodeBlock", "HTMLBlock", "Table"}

InlineKinds ==
    {"Text", "String", "CodeSpan", "Strikethrough", "Emphasis", "Link",
     "Image", "RawHTML", "AutoLink"}

\* The kinds of children the parser puts under a node of kind k.
ChildKinds(k) ==
    CASE k = "Document"   -> BlockKinds
      [] k = "Blockquote" -> BlockKinds
      [] k = "List"       -> {"ListItem"}
      [] k = "ListItem"   -> (BlockKinds \ {"Table"}) \cup {"TextBlock"}
      [] k = "TextBlock"  -> InlineKinds \cup {"TaskCheckBox"}
      [] k \in {"Paragraph", "Heading", "TableCell", "Emphasis",
                "Strikethrough", "Link", "Image"} -> InlineKinds
      [] k = "CodeSpan"   -> {"Text"}
      [] k = "Table"      -> {"TableHeader", "TableRow"}
      [] k \in {"TableHeader", "TableRow"} -> {"TableCell"}
      [] OTHER            -> {}

\* Containers the parser never leaves empty.
NeedsChild ==
    {"Paragraph", "TextBlock", "List", "Table", "TableHeader", "TableRow",
     "CodeSpan", "Emphasis", "Strikethrough"}

\* The lines of a code block: one that reads like a list item.
CodeLines == "* a"

\* An AST node as the renderer reads it: its kind, Heading.Level,
\* List.IsOrdered() and Text(source) (for a code block, its Lines()).
AstNode(k, lvl, ord, txt) ==
    [kind |-> k, level |-> lvl, ordered |-> ord, text |-> txt]

AstNodes(k) ==
    CASE k = "Heading" -> {AstNode(k, l, FALSE, "") : l \in HeadingLevels}
      [] k = "List"    -> {AstNode(k, 0, o, "") : o \in BOOLEAN}
      [] k = "Text"    -> {AstNode(k, 0, FALSE, t) : t \in TextValues}
      [] k \in {"CodeBlock", "FencedCodeBlock"}
                       -> {AstNode(k, 0, FALSE, CodeLines)}
      [] OTHER         -> {AstNode(k, 0, FALSE, "")}

DocumentNode == AstNode("Document", 0, FALSE, "")

(* --------------------------- the ADF tree ------------------------------ *)
TypeNone == "none"
TypeBlockquote == "blockquote"
TypeBulletList == "bulletList"
TypeCodeBlock == "codeBlock"
TypeHeading == "heading"
TypeOrderedList == "orderedList"
TypeParagraph == "paragraph"
TypeRule == "rule"
TypeTable == "table"
TypeListItem == "listItem"
TypeMedia == "media"
TypeTableCell == "table_cell"
TypeTableHeader == "table_header"
TypeTableRow == "table_row"
TypeText == "text"
TypeDoc == "doc"

\* *Attributes: nil, or a struct whose Level is set.
NilAttributes == [set |-> FALSE, level |-> 0]
Attributes(lvl) == [set |-> TRUE, level |-> lvl]

\* &Node{Type: t}: every other field has Go's zero value.
Node(t) ==
    [type |-> t, version |-> 0, attrs |-> NilAttributes, content |-> <<>>,
     marks |-> <<>>, text |-> ""]

\* The pointer r.document.
document == 1

\* AddContent appending the new child twice.
AddContentTwice(h, p, c) ==
    [h EXCEPT ![p].content = Append(Append(@, c), c)]

\* AddContent assigning the new child instead of appending it.
AddContentOverwrite(h, p, c) ==
    [h EXCEPT ![p].content = <<c>>]

\* n.Content = append(n.Content, c), for the nodes at p and c of heap h.
AddContent(h, p, c) ==
    [h EXCEPT ![p].content = Append(@, c)]

\* A renderer: the arena holding its tree and its blockNodeStack.data.
Renderer(h, s) == [heap |-> h, blockContext |-> s]

\* blockNodeStack.Peek: the pointer at the top of the stack.
Peek(r) == r.blockContext[Len(r.blockContext)]

\* Push that updates the context stack but not the document.
PushStackOnly(r, node) ==
    Renderer(Append(r.heap, node), Append(r.blockContext, Len(r.heap) + 1))

\* blockNodeStack.Push: node becomes the last child of the top of the
\* stack and the new top.
Push(r, node) ==
    LET c == Len(r.heap) + 1
    IN  Renderer(AddContent(Append(r.heap, node), Peek(r), c),
                 Append(r.blockContext, c))

\* blockNodeStack.Pop: the stack without its top.
Pop(r) ==
    Renderer(r.heap, SubSeq(r.blockContext, 1, Len(r.blockContext) - 1))

\* PeekAddContent that also makes the node the top of the stack, as Push
\* does.
PeekAddContentAsBlock(r, node) ==
    LET c == Len(r.heap) + 1
    IN  Renderer(AddContent(Append(r.heap, node), Peek(r), c),
                 Append(r.blockContext, c))

\* r.blockContext.Peek().AddContent(node): node becomes the last child of
\* the top of the stack; the stack is left alone.
PeekAddContent(r, node) ==
    LET c == Len(r.heap) + 1
    IN  Renderer(AddContent(Append(r.heap, node), Peek(r), c), r.blockContext)

NewRenderer ==
    Renderer(<<[Node(TypeDoc) EXCEPT !.version = 1]>>, <<document>>)

\* astToADFType without the IsOrdered test: every list is a bulletList.
astToADFTypeUnordered(n) ==
    CASE n.kind \in {"Paragraph", "TextBlock"} -> TypeParagraph
      [] n.kind = "Heading" -> TypeHeading
      [] n.kind \in {"Text", "String", "Strikethrough", "Emphasis"} -> TypeText
      [] n.kind \in {"CodeSpan", "CodeBlock", "FencedCodeBlock"} -> TypeCodeBlock
      [] n.kind = "Blockquote" -> TypeBlockquote
      [] n.kind = "List" -> TypeBulletList
      [] n.kind = "ListItem" -> TypeListItem
      [] n.kind = "Image" -> TypeMedia
      [] n.kind = "Table" -> TypeTable
      [] n.kind = "TableHeader" -> TypeTableHeader
      [] n.kind = "TableRow" -> TypeTableRow
      [] n.kind = "TableCell" -> TypeTableCell
      [] OTHER -> TypeNone

astToADFType(n) ==
    CASE n.kind \in {"Paragraph", "TextBlock"} -> TypeParagraph
      [] n.kind = "Heading" -> TypeHeading
      [] n.kind \in {"Text", "String", "Strikethrough", "Emphasis"} -> TypeText
      [] n.kind \in {"CodeSpan", "CodeBlock", "FencedCodeBlock"} -> TypeCodeBlock
      [] n.kind = "Blockquote" -> TypeBlockquote
      [] n.kind = "List" -> IF n.ordered THEN TypeOrderedList ELSE TypeBulletList
      [] n.kind = "ListItem" -> TypeListItem
      [] n.kind = "Image" -> TypeMedia
      [] n.kind = "Table" -> TypeTable
      [] n.kind = "TableHeader" -> TypeTableHeader
      [] n.kind = "TableRow" -> TypeTableRow
      [] n.kind = "TableCell" -> TypeTableCell
      [] OTHER -> TypeNone

(* ------------------------------ renderSingle --------------------------- *)
WalkContinue == "WalkContinue"
WalkSkipChildren == "WalkSkipChildren"

\* What a call of renderSingle leaves: the renderer and the ast.WalkStatus it
\* returns, or "panic" when the call panics.
Result(r, st) == [r |-> r, status |-> st]
Panic(r) == Result(r, "panic")

\* TextOf without the substitution of a space for an empty literal.
TextOfVerbatim(n) == n.text

\* case *ast.Text: adfNode.Text, a single space when the literal is empty.
TextOf(n) == IF n.text = "" THEN " " ELSE n.text

\* HeadingNode with the level left at its zero value.
HeadingNodeNoLevel(adfNode, n) == [adfNode EXCEPT !.attrs = Attributes(0)]

\* case *ast.Heading: adfNode.Attributes = &Attributes{Level: ...}.
HeadingNode(adfNode, n) == [adfNode EXCEPT !.attrs = Attributes(n.level)]

\* PushingKinds with the thematic break's case pushing its adfNode too.
PushingKindsWithBreak ==
    {"TextBlock", "Paragraph", "Heading", "List", "ListItem", "ThematicBreak"}

\* The kinds whose case pushes adfNode on the block context.
PushingKinds == {"TextBlock", "Paragraph", "Heading", "List", "ListItem"}

\* renderExit popping on every exit, whatever the type of the top.
renderExitAlwaysPop(r, n) ==
    IF r.blockContext = <<>> THEN Panic(r) ELSE Result(Pop(r), WalkContinue)

\* renderExit popping whenever the top of the stack is not the root,
\* without comparing types.
renderExitPopsAboveRoot(r, n) ==
    IF r.blockContext = <<>> THEN Panic(r)
    ELSE IF r.heap[Peek(r)].type # TypeDoc
         THEN Result(Pop(r), WalkContinue)
         ELSE Result(r, WalkContinue)

\* if !entering { ... }: pop when the node's ADF type is the type of the top
\* of the stack.  Peek of an empty stack is an index out of range.
renderExit(r, n) ==
    IF r.blockContext = <<>> THEN Panic(r)
    ELSE IF astToADFType(n) = r.heap[Peek(r)].type
         THEN Result(Pop(r), WalkContinue)
         ELSE Result(r, WalkContinue)

\* renderEnter with a default case that does nothing.
renderEnterNoDefault(r, n) ==
    LET adfNode == Node(astToADFType(n))
    IN  IF n.kind \in PushingKinds \cup {"Text"} /\ r.blockContext = <<>>
             THEN Panic(r)
        ELSE IF n.kind = "Heading"
             THEN Result(Push(r, HeadingNode(adfNode, n)), WalkContinue)
        ELSE IF n.kind \in PushingKinds
             THEN Result(Push(r, adfNode), WalkContinue)
        ELSE IF n.kind = "Text"
             THEN Result(PeekAddContent(r, [adfNode EXCEPT !.text = TextOf(n)]),
                         WalkContinue)
        ELSE Result(r, WalkContinue)

\* The type switch on entering.
renderEnter(r, n) ==
    LET adfNode == Node(astToADFType(n))
    IN  IF n.kind \notin HandledKinds THEN Panic(r)
        ELSE IF n.kind \in PushingKinds \cup {"Text"} /\ r.blockContext = <<>>
             THEN Panic(r)
        ELSE IF n.kind = "Heading"
             THEN Result(Push(r, HeadingNode(adfNode, n)), WalkContinue)
        ELSE IF n.kind \in PushingKinds
             THEN Result(Push(r, adfNode), WalkContinue)
        ELSE IF n.kind = "Text"
             THEN Result(PeekAddContent(r, [adfNode EXCEPT !.text = TextOf(n)]),
                         WalkContinue)
        ELSE Result(r, WalkContinue)

renderSingle(r, n, entering) ==
    IF ~entering THEN renderExit(r, n) ELSE renderEnter(r, n)

(* ------------------------------ serializer ----------------------------- *)
\* json.MarshalIndent(r.document, ...) as the sequence of tokens of the
\* JSON text: fields in struct order, each omitted when empty (omitempty).
RECURSIVE MarshalNode(_, _), MarshalContent(_, _)
MarshalNode(h, i) ==
    LET n == h[i]
    IN  <<"{", "type", n.type>>
        \o (IF n.version # 0 THEN <<"version", ToString(n.version)>> ELSE <<>>)
        \o (IF n.attrs.set
            THEN <<"attrs", "{">>
                 \o (IF n.attrs.level # 0
                     THEN <<"level", ToString(n.attrs.level)>> ELSE <<>>)
                 \o <<"}">>
            ELSE <<>>)
        \o (IF n.content # <<>>
            THEN <<"content", "[">> \o MarshalContent(h, n.content) \o <<"]">>
            ELSE <<>>)
        \o (IF n.marks # <<>> THEN <<"marks", "[">> \o n.marks \o <<"]">> ELSE <<>>)
        \o (IF n.text # "" THEN <<"text", n.text>> ELSE <<>>)
        \o <<"}">>

MarshalContent(h, c) ==
    IF c = <<>> THEN <<>>
    ELSE MarshalNode(h, Head(c)) \o MarshalContent(h, Tail(c))

(* ------------------------------- state --------------------------------- *)
VARIABLES
    pc,            \* "walking", "done" (written) or "panicked"
    run,           \* which conversion of the source this is
    input,         \* the AST's enter/exit events discovered so far
    pos,           \* events of input the current conversion has consumed
    path,          \* ast.Walk's recursion: the open AST nodes
    heap,          \* the Nodes allocated by the current renderer
    blockContext,  \* r.blockContext.data
    written,       \* what each conversion wrote to w
    limit          \* the most AST nodes the document has

vars == <<pc, run, input, pos, path, heap, blockContext, written, limit>>

Event(n, entering) == [n |-> n, entering |-> entering]

Top == path[Len(path)]

\* The AST node whose children the walk is in.
Parent == IF path = <<>> THEN DocumentNode ELSE Top.n

Entered == Cardinality({i \in 1..Len(input) : input[i].entering})

\* The events the tree can have after those discovered so far.
NewEvents ==
    {Event(n, TRUE) :
        n \in UNION {AstNodes(k) :
                        k \in IF Entered < limit
                              THEN ChildKinds(Parent.kind) ELSE {}}}
    \cup (IF path # <<>> /\ (Top.n.kind \in NeedsChild => Top.kids > 0)
          THEN {Event(Top.n, FALSE)} ELSE {})

\* The next event of the walk: the recorded one, or, while the first
\* conversion is discovering the tree, a new one.
NextEvents ==
    IF pos < Len(input) THEN {input[pos + 1]}
    ELSE IF run = 1 THEN NewEvents ELSE {}

Consume(ev) ==
    /\ input' = IF pos < Len(input) THEN input ELSE Append(input, ev)
    /\ pos' = pos + 1

\* Render has made its renderer and the parser has the tree; nothing has
\* been walked.
Start ==
    /\ pc = "walking"
    /\ run = 1
    /\ input = <<>>
    /\ pos = 0
    /\ path = <<>>
    /\ heap = NewRenderer.heap
    /\ blockContext = NewRenderer.blockContext
    /\ written = <<>>

Init == Start /\ limit = MaxNodes

\* ast.Walk calls the walker on entering a node, then visits its children
\* unless told to skip them.
EnterNode ==
    /\ pc = "walking"
    /\ path # <<>> => Top.status # WalkSkipChildren
    /\ \E ev \in NextEvents :
        /\ ev.entering
        /\ Consume(ev)
        /\ LET res == renderSingle(Renderer(heap, blockContext), ev.n, TRUE)
           IN  /\ heap' = res.r.heap
               /\ blockContext' = res.r.blockContext
               /\ pc' = IF res.status = "panic" THEN "panicked" ELSE pc
               /\ path' = Append(
                      IF path = <<>> THEN path
                      ELSE [path EXCEPT ![Len(path)].kids = 1],
                      [n |-> ev.n, status |-> res.status, kids |-> 0])
    /\ UNCHANGED <<run, written, limit>>

\* ast.Walk calls the walker on leaving a node, after its children.
ExitNode ==
    /\ pc = "walking"
    /\ path # <<>>
    /\ \E ev \in NextEvents :
        /\ ~ev.entering
        /\ Consume(ev)
        /\ LET res == renderSingle(Renderer(heap, blockContext), ev.n, FALSE)
           IN  /\ heap' = res.r.heap
               /\ blockContext' = res.r.blockContext
               /\ pc' = IF res.status = "panic" THEN "panicked" ELSE pc
    /\ path' = SubSeq(path, 1, Len(path) - 1)
    /\ UNCHANGED <<run, written, limit>>

\* The end of ADFRenderer.Render, after the last child of the document:
\* marshal the tree and write it.
WriteDocument ==
    /\ pc = "walking"
    /\ path = <<>>
    /\ pos = Len(input)
    /\ written' = Append(written, MarshalNode(heap, document))
    /\ pc' = "done"
    /\ UNCHANGED <<run, input, pos, path, heap, blockContext, limit>>

\* Render keeping one renderer for every conversion: the tree of the
\* conversion before stays, only the stack starts over.
RenderSharedRenderer ==
    /\ pc = "done"
    /\ run < MaxRuns
    /\ run' = run + 1
    /\ blockContext' = <<document>>
    /\ pos' = 0
    /\ pc' = "walking"
    /\ UNCHANGED <<input, path, written, limit, heap>>

\* The package-level Render called on the same source again: a new
\* renderer, and the walk starts over.
Render ==
    /\ pc = "done"
    /\ run < MaxRuns
    /\ run' = run + 1
    /\ heap' = NewRenderer.heap
    /\ blockContext' = NewRenderer.blockContext
    /\ pos' = 0
    /\ pc' = "walking"
    /\ UNCHANGED <<input, path, written, limit>>

\* One conversion of every document of at most MaxNodes nodes.
Next == EnterNode \/ ExitNode \/ WriteDocument

Spec == Init /\ [][Next]_vars

\* MaxRuns conversions of every document of at most MaxReplayNodes nodes.
InitTwice == Start /\ limit = MaxReplayNodes

NextTwice == EnterNode \/ ExitNode \/ WriteDocument \/ Render

SpecTwice == InitTwice /\ [][NextTwice]_vars

(* ------------------------------ properties ----------------------------- *)
\* The events the current conversion has consumed.
Consumed == SubSeq(input, 1, pos)

\* The last event the current conversion consumed.
LastEvent == input[pos]

\* The nodes of the tree with type t.
NodesOfType(t) == {i \in 1..Len(heap) : heap[i].type = t}

\* The nodes that hold node i in their content.
ParentsOf(i) ==
    {p \in 1..Len(heap) :
        \E k \in 1..Len(heap[p].content) : heap[p].content[k] = i}

\* C6: every text leaf of the tree has a non-empty text, and the leaf made
\* for a Text node whose literal is empty has the text " ".  The leaves are
\* allocated in the order their Text nodes are entered.
C6_EmptyTextBecomesSpace ==
    LET IsText(e) == e.entering /\ e.n.kind = "Text"
        IsLeaf(x) == x.type = TypeText
        literals == SelectSeq(Consumed, IsText)
        leaves == SelectSeq(heap, IsLeaf)
    IN  /\ Len(leaves) = Len(literals)
        /\ \A i \in 1..Len(leaves) :
            /\ leaves[i].text # ""
            /\ literals[i].n.text = "" => leaves[i].text = " "

\* A finished conversion of a document with an empty Text literal.
C6_Witness ==
    /\ pc = "done"
    /\ \E i \in 1..Len(input) :
        input[i].entering /\ input[i].n.kind = "Text" /\ input[i].n.text = ""
    /\ \E j \in NodesOfType(TypeText) : heap[j].text = " "

\* C7: the heading nodes of the tree carry, in order, the levels of the
\* Heading nodes entered, each in 1..6; a heading on the block-context stack
\* already has its level.
C7_HeadingLevelPreserved ==
    LET IsHeadingEnter(e) == e.entering /\ e.n.kind = "Heading"
        IsHeading(x) == x.type = TypeHeading
        entered == SelectSeq(Consumed, IsHeadingEnter)
        made == SelectSeq(heap, IsHeading)
    IN  /\ Len(made) = Len(entered)
        /\ \A i \in 1..Len(made) :
            /\ made[i].attrs.set
            /\ made[i].attrs.level = entered[i].n.level
            /\ made[i].attrs.level \in 1..6
        /\ \A k \in 1..Len(blockContext) :
            heap[blockContext[k]].type = TypeHeading
                => heap[blockContext[k]].attrs.level \in 1..6

\* The walk is inside a level-3 heading, which is the insertion point.
C7_Witness ==
    /\ pc = "walking"
    /\ path # <<>>
    /\ Top.n.kind = "Heading"
    /\ Top.n.level = 3
    /\ heap[blockContext[Len(blockContext)]].type = TypeHeading
    /\ heap[blockContext[Len(blockContext)]].attrs.level = 3

\* C8: every conversion of the same source writes the same tokens, and
\* each conversion starts from a tree that is only a fresh root and a stack
\* that holds only that root.
C8_SameSourceSameOutput ==
    /\ \A i, j \in 1..Len(written) : written[i] = written[j]
    /\ (pc = "walking" /\ pos = 0) =>
        /\ heap = <<[type |-> "doc", version |-> 1,
                     attrs |-> [set |-> FALSE, level |-> 0],
                     content |-> <<>>, marks |-> <<>>, text |-> ""]>>
        /\ blockContext = <<1>>

\* A document with content has been converted twice.
C8_Witness ==
    /\ pc = "done"
    /\ Len(written) = 2
    /\ Len(heap) > 2

\* C9: the block-context stack is never empty and the document root is its
\* bottom; the only panic is the one for a kind without a case, never an
\* index out of range in Peek, Pop or Push.
C9_StackNeverEmpty ==
    /\ Len(blockContext) >= 1
    /\ blockContext[1] = document
    /\ pc = "panicked" => LastEvent.entering /\ LastEvent.n.kind \in UnknownKinds

\* An exit event has popped the stack back to the root alone.
C9_Witness ==
    /\ pc = "walking"
    /\ pos > 0
    /\ ~LastEvent.entering
    /\ LastEvent.n.kind \in PushingKinds
    /\ path = <<>>
    /\ blockContext = <<document>>
    /\ Len(heap) > 2

\* Enter events consumed whose node has one of the kinds.
EntersOf(kinds) ==
    {i \in 1..pos : input[i].entering /\ input[i].n.kind \in kinds}

\* Open nodes after event m of the input.
Depth(m) ==
    Cardinality({i \in 1..m : input[i].entering})
        - Cardinality({i \in 1..m : ~input[i].entering})

\* The node entered at event j is an ancestor of the one entered at event i.
Ancestor(j, i) ==
    /\ j < i
    /\ input[j].entering
    /\ \A m \in j..(i - 1) : Depth(m) >= Depth(j)

UnderQuote(i) ==
    \E j \in 1..(i - 1) : Ancestor(j, i) /\ input[j].n.kind = "Blockquote"

\* The kinds and directions of the events of the input.
Shape == [i \in 1..Len(input) |-> <<input[i].n.kind, input[i].entering>>]

\* C1: the tree a conversion serializes obeys the ADF nesting rules: the
\* children of doc are blocks, a text leaf is a child of a paragraph,
\* heading or codeBlock, a listItem is a child of a list, and the children
\* of a listItem are of the types ADF allows there.
C1_OutputNestingValid ==
    pc = "done" =>
        \A p \in 1..Len(heap) : \A k \in 1..Len(heap[p].content) :
            LET parent == heap[p].type
                child == heap[heap[p].content[k]].type
            IN  /\ parent = TypeDoc =>
                    child \in {TypeParagraph, TypeHeading, TypeBlockquote,
                               TypeBulletList, TypeOrderedList, TypeCodeBlock,
                               TypeRule, TypeTable, "mediaSingle",
                               "mediaGroup", "panel"}
                /\ child = TypeText =>
                    parent \in {TypeParagraph, TypeHeading, TypeCodeBlock}
                /\ child = TypeListItem =>
                    parent \in {TypeBulletList, TypeOrderedList}
                /\ parent = TypeListItem =>
                    child \in {TypeParagraph, TypeBulletList, TypeOrderedList,
                               TypeCodeBlock, "mediaSingle"}

\* C2: a block quote holding a block quote holding a paragraph is converted
\* to one blockquote node whose content is exactly that paragraph, and no
\* blockquote is a child of a blockquote.
C2_NestedQuoteIsOneBlockquote ==
    (/\ pc = "done"
     /\ Shape = << <<"Blockquote", TRUE>>, <<"Blockquote", TRUE>>,
                   <<"Paragraph", TRUE>>, <<"Text", TRUE>>, <<"Text", FALSE>>,
                   <<"Paragraph", FALSE>>, <<"Blockquote", FALSE>>,
                   <<"Blockquote", FALSE>> >>)
    => /\ Cardinality(NodesOfType(TypeBlockquote)) = 1
       /\ \A q \in NodesOfType(TypeBlockquote) :
            /\ Len(heap[q].content) = 1
            /\ heap[heap[q].content[1]].type = TypeParagraph
            /\ ParentsOf(q) \cap NodesOfType(TypeBlockquote) = {}

\* C3: while the walk is in a fenced code block, the top of the block
\* context is a codeBlock node whose only child is a text leaf holding the
\* lines verbatim, and the lines have made no bulletList node.
C3_FencedCodeIsVerbatimBlock ==
    (pc = "walking" /\ path # <<>> /\ Top.n.kind = "FencedCodeBlock") =>
        LET b == heap[blockContext[Len(blockContext)]]
        IN  /\ b.type = TypeCodeBlock
            /\ Len(b.content) = 1
            /\ heap[b.content[1]].type = TypeText
            /\ heap[b.content[1]].text = Top.n.text
            /\ Cardinality(NodesOfType(TypeBulletList))
                 = Cardinality({i \in EntersOf({"List"}) : ~input[i].n.ordered})

\* C4: entering a code span, emphasis, strikethrough or link appends one
\* text leaf with the matching mark to the top of the block context and
\* returns WalkSkipChildren, so the walk never is inside such a node.
C4_MarkedLeafChildrenSkipped ==
    LET MarkKinds == {"CodeSpan", "Emphasis", "Strikethrough", "Link"}
        MarksOf(k) ==
            CASE k = "CodeSpan" -> {"code"}
              [] k = "Emphasis" -> {"em", "strong"}
              [] k = "Strikethrough" -> {"strike"}
              [] OTHER -> {"link"}
    IN  (pc = "walking" /\ path # <<>>) =>
            /\ \A j \in 1..(Len(path) - 1) : path[j].n.kind \notin MarkKinds
            /\ Top.n.kind \in MarkKinds =>
                LET c == heap[blockContext[Len(blockContext)]].content
                IN  /\ Top.status = WalkSkipChildren
                    /\ c # <<>>
                    /\ heap[c[Len(c)]].type = TypeText
                    /\ Len(heap[c[Len(c)]].marks) = 1
                    /\ heap[c[Len(c)]].marks[1] \in MarksOf(Top.n.kind)

\* C5, as amended: entering a node whose kind has no case in the type
\* switch panics at once, and the conversion that panicked has written no
\* document.
C5_UnknownKindAborts ==
    /\ \A i \in 1..pos :
        (input[i].entering /\ input[i].n.kind \notin HandledKinds)
            => (i = pos /\ pc = "panicked")
    /\ pc = "panicked" => Len(written) < run

\* A conversion has panicked after building part of the tree.
C5_Witness ==
    /\ pc = "panicked"
    /\ LastEvent.n.kind \in UnknownKinds
    /\ Len(heap) > 2
    /\ written = <<>>

\* C5, as claimed: a kind without a case aborts the conversion, and every
\* node that reached the type switch has its node in the written tree.
C5_AbortsAndDropsNothing ==
    /\ \A i \in 1..pos :
        (input[i].entering /\ input[i].n.kind \notin HandledKinds)
            => (i = pos /\ pc = "panicked")
    /\ pc = "panicked" => Len(written) < run
    /\ pc = "done" => Len(heap) - 1 = Cardinality(EntersOf(HandledKinds))

\* C10: of the blocks entered under a block quote only paragraphs are in
\* the tree: headings, lists and list items entered there have no node, no
\* blockquote is a child of a blockquote, and each paragraph entered there
\* is a child of a blockquote node.
C10_QuoteKeepsOnlyParagraphs ==
    /\ Cardinality(NodesOfType(TypeHeading) \cup NodesOfType(TypeBulletList)
                   \cup NodesOfType(TypeOrderedList)
                   \cup NodesOfType(TypeListItem))
         = Cardinality({i \in EntersOf({"Heading", "List", "ListItem"}) :
                            ~UnderQuote(i)})
    /\ \A q \in NodesOfType(TypeBlockquote) :
         ParentsOf(q) \cap NodesOfType(TypeBlockquote) = {}
    /\ Cardinality({p \in NodesOfType(TypeParagraph) :
                        /\ ParentsOf(p) # {}
                        /\ ParentsOf(p) \subseteq NodesOfType(TypeBlockquote)})
         = Cardinality({i \in EntersOf({"Paragraph", "TextBlock"}) :
                            UnderQuote(i)})

\* The event a step of the walk consumes, when the step consumes one.
Consumes == pos' = pos + 1
StepEvent == input'[pos']

\* The stack without its top.
Front(stack) == SubSeq(stack, 1, Len(stack) - 1)

\* C11: the exit of a node that is not an inline leaf (paragraph, text
\* block, heading, list, list item, block quote, code block, table, table
\* header, row or cell) removes the top of the block-context stack.
C11_BlockExitPops ==
    [][(/\ Consumes
        /\ ~StepEvent.entering
        /\ StepEvent.n.kind \in
              {"Paragraph", "TextBlock", "Heading", "List", "ListItem",
               "Blockquote", "CodeBlock", "FencedCodeBlock", "Table",
               "TableHeader", "TableRow", "TableCell"})
       => blockContext' = Front(blockContext)]_vars

\* C12: a push (the enter of a paragraph, text block, heading, list or list
\* item) allocates one node, appends it as the last child of the node that
\* was the top of the stack, changes no other node, and leaves the stack as
\* the old stack with the new node appended, so that Peek is the new node.
C12_PushAppendsAndBecomesTop ==
    [][(/\ Consumes
        /\ StepEvent.entering
        /\ StepEvent.n.kind \in
              {"Paragraph", "TextBlock", "Heading", "List", "ListItem"})
       => LET oldTop == blockContext[Len(blockContext)]
              node == Len(heap) + 1
          IN  /\ Len(heap') = node
              /\ heap'[node].content = <<>>
              /\ blockContext' = Append(blockContext, node)
              /\ blockContext'[Len(blockContext')] = node
              /\ heap'[oldTop].content = Append(heap[oldTop].content, node)
              /\ \A i \in 1..Len(heap) :
                    heap'[i] = IF i = oldTop
                               THEN [heap[i] EXCEPT !.content = Append(@, node)]
                               ELSE heap[i]]_vars

\* A push has just made a node the top of a stack of three, as a later
\* child of a node that already had content.
C12_Witness ==
    /\ pc = "walking"
    /\ pos > 0
    /\ LastEvent.entering
    /\ LastEvent.n.kind \in PushingKinds
    /\ Len(blockContext) >= 3
    /\ blockContext[Len(blockContext)] = Len(heap)
    /\ Len(heap[blockContext[Len(blockContext) - 1]].content) >= 2

\* C13: the enter of a Text node allocates one text leaf and appends it to
\* the content of the top of the stack, changing no other node and not the
\* stack; the exit of a Text node changes neither the stack nor the tree.
C13_TextLeafLeavesStack ==
    [][(Consumes /\ StepEvent.n.kind = "Text")
       => /\ blockContext' = blockContext
          /\ IF StepEvent.entering
             THEN LET top == blockContext[Len(blockContext)]
                      leaf == Len(heap) + 1
                  IN  /\ Len(heap') = leaf
                      /\ heap'[leaf].type = "text"
                      /\ heap'[leaf].content = <<>>
                      /\ \A i \in 1..Len(heap) :
                            heap'[i] =
                                IF i = top
                                THEN [heap[i] EXCEPT !.content = Append(@, leaf)]
                                ELSE heap[i]
             ELSE heap' = heap]_vars

\* The walk has left a Text node inside an open block: the block is still
\* the top of the stack and the leaf is its last child.
C13_Witness ==
    /\ pc = "walking"
    /\ pos > 1
    /\ ~LastEvent.entering
    /\ LastEvent.n.kind = "Text"
    /\ Len(blockContext) >= 2
    /\ heap[Len(heap)].type = TypeText
    /\ LET c == heap[blockContext[Len(blockContext)]].content
       IN  c # <<>> /\ c[Len(c)] = Len(heap)

\* C14: the enter of a thematic break allocates one node of type rule and
\* appends it to the content of the top of the stack, without changing the
\* stack.
C14_ThematicBreakIsRule ==
    [][(Consumes /\ StepEvent.entering /\ StepEvent.n.kind = "ThematicBreak")
       => LET top == blockContext[Len(blockContext)]
              rule == Len(heap) + 1
          IN  /\ blockContext' = blockContext
              /\ Len(heap') = rule
              /\ heap'[rule].type = "rule"
              /\ heap'[top].content = Append(heap[top].content, rule)]_vars

\* C15: no node of the tree has the type "none", and "none" is no token of
\* a written document.
C15_NoNoneNode ==
    /\ \A i \in 1..Len(heap) : heap[i].type # "none"
    /\ \A k \in 1..Len(written) :
         \A t \in 1..Len(written[k]) : written[k][t] # "none"

\* A document with nodes that astToADFType maps to "none" and with nodes
\* that are in the tree has been written.
C15_Witness ==
    /\ pc = "done"
    /\ \E i \in EntersOf(HandledKinds) : astToADFType(input[i].n) = TypeNone
    /\ Len(heap) > 1

\* C16: in every step of a conversion the tree only grows: no node is
\* freed, every node keeps its type, attributes, marks and text, and the
\* content of every node keeps its old children, in order, as a prefix.
C16_TreeOnlyGrows ==
    [][/\ Len(heap') >= Len(heap)
       /\ \A i \in 1..Len(heap) :
            /\ heap'[i].type = heap[i].type
            /\ heap'[i].attrs = heap[i].attrs
            /\ heap'[i].marks = heap[i].marks
            /\ heap'[i].text = heap[i].text
            /\ Len(heap'[i].content) >= Len(heap[i].content)
            /\ SubSeq(heap'[i].content, 1, Len(heap[i].content))
                 = heap[i].content]_vars

\* A node below the root has received a second child.
C16_Witness ==
    /\ pc = "walking"
    /\ \E i \in 2..Len(heap) : Len(heap[i].content) >= 2

\* The children of the first n nodes of the arena, parent by parent.
RECURSIVE ChildrenUpTo(_)
ChildrenUpTo(n) ==
    IF n = 0 THEN <<>> ELSE ChildrenUpTo(n - 1) \o heap[n].content

\* The nodes reached from the nodes of S by steps to a child.
RECURSIVE Descendants(_)
Descendants(S) ==
    LET T == S \cup UNION {{heap[p].content[k] : k \in 1..Len(heap[p].content)} :
                              p \in S}
    IN  IF T = S THEN S ELSE Descendants(T)

\* C17: the tree is a tree rooted at the document node: the root has type
\* doc and version 1 and is the child of no node, every other node is a
\* child at exactly one place, and every node is reached from the root (so
\* no node is shared and there is no cycle).
C17_TreeRootedAtDocument ==
    [](LET children == ChildrenUpTo(Len(heap))
          IN  /\ heap[document].type = "doc"
              /\ heap[document].version = 1
              /\ Len(children) = Len(heap) - 1
              /\ {children[k] : k \in 1..Len(children)} = 2..Len(heap)
              /\ Descendants({document}) = 1..Len(heap))

\* A written tree with a node two levels below the root and a node with
\* two children.
C17_Witness ==
    /\ pc = "done"
    /\ \E i \in 2..Len(heap) : heap[i].content # <<>>
    /\ \E i \in 1..Len(heap) : Len(heap[i].content) >= 2

\* The open AST nodes of the kinds that are pushed, outermost first.
OpenBlocks ==
    LET Pushes(e) ==
            e.n.kind \in {"Paragraph", "TextBlock", "Heading", "List", "ListItem"}
    IN  SelectSeq(path, Pushes)

\* C18: the list nodes of the tree have, in order, the types of the lists
\* entered, orderedList for an ordered list and bulletList for an unordered
\* one; every list item entered has a listItem node, which is a child of a
\* list node, and a list node has no other children; an open list or list
\* item at any depth is on the stack with its type, an open list item
\* directly above its list, whose child it is; a list that was left is not.
C18_ListsKeepOrderAndNesting ==
    [](LET IsListEnter(e) == e.entering /\ e.n.kind = "List"
              IsList(x) == x.type \in {"orderedList", "bulletList"}
              entered == SelectSeq(Consumed, IsListEnter)
              made == SelectSeq(heap, IsList)
              lists == NodesOfType("orderedList") \cup NodesOfType("bulletList")
          IN  /\ Len(made) = Len(entered)
              /\ \A i \in 1..Len(made) :
                   made[i].type = IF entered[i].n.ordered THEN "orderedList"
                                  ELSE "bulletList"
              /\ Cardinality(NodesOfType("listItem"))
                   = Cardinality(EntersOf({"ListItem"}))
              /\ \A i \in NodesOfType("listItem") :
                   ParentsOf(i) # {} /\ ParentsOf(i) \subseteq lists
              /\ \A p \in lists : \A k \in 1..Len(heap[p].content) :
                   heap[heap[p].content[k]].type = "listItem"
              /\ pc # "panicked" =>
                  /\ Len(blockContext) = 1 + Len(OpenBlocks)
                  /\ \A k \in 1..Len(OpenBlocks) :
                      LET n == OpenBlocks[k].n
                          node == blockContext[k + 1]
                      IN  /\ n.kind = "List" =>
                              heap[node].type = IF n.ordered THEN "orderedList"
                                                ELSE "bulletList"
                          /\ n.kind = "ListItem" =>
                              /\ heap[node].type = "listItem"
                              /\ OpenBlocks[k - 1].n.kind = "List"
                              /\ blockContext[k] \in ParentsOf(node))

\* The walk is in an item of an ordered list in an item of an unordered
\* list, and the stack holds the four nodes.
C18_Witness ==
    /\ pc = "walking"
    /\ Len(path) = 4
    /\ path[1].n.kind = "List" /\ ~path[1].n.ordered
    /\ path[2].n.kind = "ListItem"
    /\ path[3].n.kind = "List" /\ path[3].n.ordered
    /\ path[4].n.kind = "ListItem"
    /\ [k \in 1..Len(blockContext) |-> heap[blockContext[k]].type]
         = <<"doc", "bulletList", "listItem", "orderedList", "listItem">>

\* The node allocated for the node entered at event i, when its kind is one
\* that allocates: nodes are allocated in the order of the enter events.
NodeOf(i) ==
    1 + Cardinality(
            {j \in 1..i :
                /\ input[j].entering
                /\ input[j].n.kind \in {"Paragraph", "TextBlock", "Heading",
                                        "List", "ListItem", "Text"}})

\* The enter events, oldest first, of the nodes that are open after the
\* first k events of the input.
RECURSIVE OpenAfter(_)
OpenAfter(k) ==
    IF k = 0 THEN <<>>
    ELSE IF input[k].entering THEN Append(OpenAfter(k - 1), k)
    ELSE Front(OpenAfter(k - 1))

\* C19: pushes and pops are balanced.  In every state of the walk the stack
\* is the root followed by exactly the nodes pushed by the enter events of
\* the AST nodes that are still open, outermost first: the exit of a node
\* has removed the node its own enter pushed and no other, so the stack
\* after the exit of a node is the stack before its enter; and when the
\* document is written the stack is the root alone.
C19_PushPopBalanced ==
    [](LET Pushes(i) ==
                  input[i].n.kind \in {"Paragraph", "TextBlock", "Heading", "List",
                                       "ListItem"}
              openPushed == SelectSeq(OpenAfter(pos), Pushes)
          IN  /\ pc # "panicked" =>
                  blockContext
                      = <<document>> \o [k \in 1..Len(openPushed) |->
                                            NodeOf(openPushed[k])]
              /\ pc = "done" => blockContext = <<document>>)

\* A document has been written in which a node that pushes held a node
\* that does not, and the tree has three levels.
C19_Witness ==
    /\ pc = "done"
    /\ blockContext = <<document>>
    /\ \E i \in 2..Len(heap) : heap[i].content # <<>>
    /\ \E i, j \in 1..Len(input) :
        /\ Ancestor(i, j)
        /\ input[i].n.kind \in PushingKinds
        /\ input[j].entering
        /\ input[j].n.kind \in {"Blockquote", "Emphasis", "CodeSpan", "Text"}

====
